---------------------------- MODULE Spec2Model ----------------------------
(***************************************************************************)
(* The command/response bridge of pycg's Blender server                    *)
(* (src/pycg/blender_server/main.py): the two queues served by the         *)
(* BaseManager, handle_cmds, and the two drivers around it, the modal      *)
(* ClientOperator (GUI mode) and the while-loop of __main__ (background    *)
(* mode).                                                                  *)
(*                                                                         *)
(* A message is a Python dict; it is modelled as a record that has exactly *)
(* the keys the dict has, so msg['k'] on an absent key is a KeyError and   *)
(* 'k' in msg.keys() is  "k" \in DOMAIN msg.                               *)
(***************************************************************************)
EXTENDS Integers, Sequences, FiniteSets, TLC

VARIABLES
    background,   \* bpy.app.background: FALSE = modal operator, TRUE = while loop
    cmd_queue,    \* the manager's cmd_queue
    res_queue,    \* everything put on the manager's res_queue, in order
    pc,           \* the driver: "poll", "handle" (a command is in hand), "stopped"
    new_command,  \* the command in hand (new_command of the driver)
    ret,          \* what the last driver step returned or did
    manager,      \* conn_manager: "running", "shutdown", "exited"
    timer,        \* the window manager's event timer is registered
    scene,        \* the Blender scene and the AssetManager table
    notified,     \* uses of the host_notify operator so far
    pushed,       \* history: every command put on cmd_queue, in order
    trace         \* history: one entry per command handled

vars == <<background, cmd_queue, res_queue, pc, new_command, ret, manager,
          timer, scene, notified, pushed, trace>>

---------------------------------------------------------------------------
(* Bounds of the model *)

\* commands the clients put on cmd_queue in one run
MaxPush == 2
\* uses of the host_notify operator in one run
MaxNotify == 1

---------------------------------------------------------------------------
(* Python values *)

\* a list of numbers (dim 1), a list holding one such list (dim 2), or a
\* number (dim 0); v holds the numbers
Flat(v) == [dim |-> 1, v |-> v]
Nested(v) == [dim |-> 2, v |-> v]
Scalar(x) == [dim |-> 0, v |-> <<x>>]

\* x[0]
Item0(x) == IF x.dim = 2 THEN Flat(x.v) ELSE Scalar(x.v[1])

\* x[a:b] of a list or of np.asarray(x): rows of a nested list, elements of a
\* flat one
Slice(x, a, b) ==
    IF x.dim = 1
    THEN Flat(SubSeq(x.v, a + 1, IF b < Len(x.v) THEN b ELSE Len(x.v)))
    ELSE IF a = 0 /\ b > 0 THEN x ELSE Nested(<<>>)

\* a value Blender accepts for a vector property of n components
IsVector(x, n) == x.dim = 1 /\ Len(x.v) = n

\* uuid.uuid1(), one new string per call
Uuid1(n) == "g" \o ToString(n)

NoCommand == [cmd |-> "<none>"]
NoResponse == [result |-> "<none>"]

---------------------------------------------------------------------------
(* The scene behind handle_cmds *)

\* a new bpy object: rotation_mode XYZ, unit quaternion, at the origin
NewObject ==
    [rotation_mode |-> "XYZ", rotation_quaternion |-> <<1, 0, 0, 0>>,
     rotation_axis_angle |-> <<0, 0, 1, 0>>, location |-> <<0, 0, 0>>]

\* the scene after init_env: no asset, no light, the default world, the
\* camera parented to camera_base
InitScene ==
    [assets |-> [u \in {} |-> NewObject], \* AssetManager.data: uuid -> object
     uuids |-> 0,                \* uuids generated so far
     lights |-> <<>>,            \* bpy.data.lights, the light ids in order
     light_objects |-> <<>>,     \* the light objects linked to the collection
     camera |-> NewObject,       \* bpy.context.scene.camera
     camera_base |-> NewObject,  \* bpy.data.objects["camera_base"]
     camera_data |-> [intrinsic |-> <<>>, clip |-> <<"default", "default">>],
     keyframes |-> {},           \* camera keyframes: <<data_path, frame, value>>
     animated |-> {},            \* objects holding animation data
     fcurves |-> <<>>,           \* f-curves created, in order
     world |-> "default",        \* the world's node tree
     render |-> <<>>,            \* <<samples, filepath>> of the last render
     saved |-> <<>>]             \* path of the last save

\* what a call of handle_cmds comes to: it returns res, or raises
Return(res, sc) == [kind |-> "return", res |-> res, scene |-> sc]
Raise(exc, sc) == [kind |-> exc, res |-> NoResponse, scene |-> sc]

Has(msg, k) == k \in DOMAIN msg


PyNone == [dim |-> -1, v |-> <<>>]

\* str.lower() on the names the clients use
Lower(s) ==
    CASE s = "Camera" -> "camera"
      [] s = "Pose" -> "pose"
      [] s = "Relative_Camera" -> "relative_camera"
      [] OTHER -> s

EmptyMap == [u \in {} |-> NewObject]
Put(f, k, x) == [u \in DOMAIN f \cup {k} |-> IF u = k THEN x ELSE f[u]]

\* get_object: the two reserved names, else the AssetManager table; the
\* result names the object, or is the KeyError of a name the table lacks
get_object(name, sc) ==
    IF Lower(name) = "relative_camera" THEN [exc |-> "none", in |-> "camera", name |-> name]
    ELSE IF Lower(name) = "camera_base" THEN [exc |-> "none", in |-> "camera_base", name |-> name]
    ELSE IF name \in DOMAIN sc.assets THEN [exc |-> "none", in |-> "assets", name |-> name]
    ELSE [exc |-> "KeyError", in |-> "assets", name |-> name]

Object(sc, ref) ==
    IF ref.in = "camera" THEN sc.camera
    ELSE IF ref.in = "camera_base" THEN sc.camera_base
    ELSE sc.assets[ref.name]

SetObject(sc, ref, obj) ==
    IF ref.in = "camera" THEN [sc EXCEPT !.camera = obj]
    ELSE IF ref.in = "camera_base" THEN [sc EXCEPT !.camera_base = obj]
    ELSE [sc EXCEPT !.assets = Put(@, ref.name, obj)]

\* rebuild_world_surface: the EnvTex image removed, the node tree emptied
rebuild_world_surface(sc) == [sc EXCEPT !.world = "empty"]

\* AssetManager.create_entity: a new object registered under a new uuid
create_entity(msg, sc) ==
    [sc EXCEPT !.uuids = @ + 1, !.assets = Put(@, Uuid1(sc.uuids + 1), NewObject)]

\* AssetManager.clear_all: the table emptied
clear_all(sc) == [sc EXCEPT !.assets = EmptyMap]

\* the rotation modes of a Blender object
RotationModes == {"QUATERNION", "XYZ", "XZY", "YXZ", "YZX", "ZXY", "ZYX", "AXIS_ANGLE"}
\* the types of a Blender light
LightTypes == {"POINT", "SUN", "SPOT", "AREA"}

---------------------------------------------------------------------------
(* handle_cmds, one operator per branch *)

HandleEntity(msg, sc) ==
    IF ~Has(msg, "geometry_type") THEN Raise("KeyError", sc)
    ELSE LET sc1 == create_entity(msg, sc)
             id == Uuid1(sc.uuids + 1)
             o1 == [sc1.assets[id] EXCEPT !.rotation_mode = "QUATERNION"]
             sc2 == [sc1 EXCEPT !.assets = Put(@, id, o1)]
         IN IF ~Has(msg, "pose") THEN Raise("KeyError", sc2)
            ELSE LET quat == Slice(msg.pose, 3, Len(msg.pose.v))
                     loc == Slice(msg.pose, 0, 3)
                 IN IF ~IsVector(quat, 4) THEN Raise("ValueError", sc2)
                    ELSE LET o2 == [o1 EXCEPT !.rotation_quaternion = quat.v]
                             sc3 == [sc2 EXCEPT !.assets = Put(@, id, o2)]
                         IN IF ~IsVector(loc, 3) THEN Raise("ValueError", sc3)
                            ELSE Return([result |-> "created", uuid |-> id],
                                        [sc3 EXCEPT !.assets =
                                            Put(@, id, [o2 EXCEPT !.location = loc.v])])

HandleClear(msg, sc) ==
    LET sc1 == clear_all(sc)
        sc2 == [sc1 EXCEPT !.lights = <<>>, !.light_objects = <<>>]
        sc3 == [sc2 EXCEPT !.keyframes = {},
                           !.animated = @ \ {"relative_camera", "camera_base"}]
        sc4 == [rebuild_world_surface(sc3) EXCEPT !.world = "background"]
    IN Return([result |-> "success"], sc4)

\* lines 101-105
CameraPose(msg, sc) ==
    IF ~Has(msg, "pose") THEN Return(NoResponse, sc)
    ELSE LET cam_ext == Item0(msg.pose)
         IN IF cam_ext.dim = 0 THEN Raise("IndexError", sc)
            ELSE IF ~IsVector(Slice(cam_ext, 0, 3), 3) THEN Raise("ValueError", sc)
            ELSE LET sc1 == [sc EXCEPT !.camera.location = Slice(cam_ext, 0, 3).v,
                                       !.camera.rotation_mode = "QUATERNION"]
                 IN IF ~IsVector(Slice(cam_ext, 3, 7), 4) THEN Raise("ValueError", sc1)
                    ELSE Return(NoResponse,
                                [sc1 EXCEPT !.camera.rotation_quaternion =
                                                Slice(cam_ext, 3, 7).v])

\* lines 106-114
CameraIntrinsic(msg, sc) ==
    IF ~Has(msg, "intrinsic") THEN Return(NoResponse, sc)
    ELSE IF msg.intrinsic.dim # 1 \/ Len(msg.intrinsic.v) < 5 THEN Raise("IndexError", sc)
    ELSE Return(NoResponse,
                [sc EXCEPT !.camera_data.intrinsic = SubSeq(msg.intrinsic.v, 1, 5),
                           !.camera_data.clip = <<"0.1", "1000.0">>])

HandleCamera(msg, sc) ==
    LET p == CameraPose(msg, sc)
    IN IF p.kind # "return" THEN p
       ELSE LET i == CameraIntrinsic(msg, p.scene)
            IN IF i.kind # "return" THEN i
               ELSE Return([result |-> "success"], i.scene)

\* AssetManager.get_entity: the entity's description, a KeyError for a uuid
\* the table lacks
get_entity(uuid, sc) ==
    IF uuid \in DOMAIN sc.assets THEN Return([uuid |-> uuid], sc)
    ELSE Raise("KeyError", sc)

HandleGetEntity(msg, sc) ==
    IF ~Has(msg, "uuid") THEN Raise("KeyError", sc)
    ELSE LET res == get_entity(msg.uuid, sc)
         IN IF res.kind # "return" THEN res
            ELSE Return([result |-> "got", uuid |-> res.res.uuid], sc)


\* lines 130-135: the size field of the light's type
LightSizeField(type) ==
    CASE type = "SUN" -> "angle"
      [] type \in {"POINT", "SPOT"} -> "radius"
      [] type = "AREA" -> "size"

HandleLight(msg, sc) ==
    LET light_id == IF Has(msg, "uuid") THEN msg.uuid ELSE Uuid1(sc.uuids + 1)
        sc0 == IF Has(msg, "uuid") THEN sc ELSE [sc EXCEPT !.uuids = @ + 1]
    IN IF ~Has(msg, "type") THEN Raise("KeyError", sc0)
       ELSE IF msg.type \notin LightTypes THEN Raise("TypeError", sc0)
       ELSE LET sc1 == [sc0 EXCEPT !.lights = Append(@, light_id)]
            IN IF ~Has(msg, "energy") THEN Raise("KeyError", sc1)
               ELSE IF ~Has(msg, LightSizeField(msg.type)) THEN Raise("KeyError", sc1)
               ELSE LET o0 == NewObject
                        sc2 == [sc1 EXCEPT !.light_objects =
                                   Append(@, [uuid |-> light_id, object |-> o0])]
                        n == Len(sc2.light_objects)
                    IN IF ~Has(msg, "pos") THEN Raise("KeyError", sc2)
                       ELSE IF ~IsVector(msg.pos, 3) THEN Raise("ValueError", sc2)
                       ELSE LET o1 == [o0 EXCEPT !.location = msg.pos.v,
                                                 !.rotation_mode = "QUATERNION"]
                                sc3 == [sc2 EXCEPT !.light_objects[n].object = o1]
                            IN IF ~Has(msg, "rot") THEN Raise("KeyError", sc3)
                               ELSE IF ~IsVector(msg.rot, 4) THEN Raise("ValueError", sc3)
                               ELSE Return([result |-> "created", uuid |-> light_id],
                                           [sc3 EXCEPT !.light_objects[n].object =
                                               [o1 EXCEPT !.rotation_quaternion = msg.rot.v]])

\* for q in range(n): target[q] = value[q], which stops with an IndexError
\* at the first q the value lacks
AssignItems(target, value, n) ==
    [q \in 1..Len(target) |->
        IF q <= n /\ q <= Len(value) THEN value[q] ELSE target[q]]

\* lines 149-159
EntityPoseRotation(msg, sc, ref) ==
    IF ~Has(msg, "rotation_mode") THEN Raise("KeyError", sc)
    ELSE IF msg.rotation_mode = "None" THEN Return(NoResponse, sc)
    ELSE IF msg.rotation_mode \notin RotationModes THEN Raise("TypeError", sc)
    ELSE LET o1 == [Object(sc, ref) EXCEPT !.rotation_mode = msg.rotation_mode]
             sc1 == SetObject(sc, ref, o1)
         IN IF msg.rotation_mode \in {"QUATERNION", "AXIS_ANGLE"}
            THEN IF ~Has(msg, "rotation_value") THEN Raise("KeyError", sc1)
                 ELSE IF msg.rotation_value.dim # 1 THEN Raise("TypeError", sc1)
                 ELSE LET val == msg.rotation_value.v
                          o2 == IF msg.rotation_mode = "QUATERNION"
                                THEN [o1 EXCEPT !.rotation_quaternion = AssignItems(@, val, 4)]
                                ELSE [o1 EXCEPT !.rotation_axis_angle = AssignItems(@, val, 4)]
                          sc2 == SetObject(sc1, ref, o2)
                      IN IF Len(val) < 4 THEN Raise("IndexError", sc2)
                         ELSE Return(NoResponse, sc2)
            ELSE \* target_object.rotation: an object has no such attribute
                 Raise("AttributeError", sc1)

\* lines 160-162
EntityPoseLocation(msg, sc, ref) ==
    IF ~Has(msg, "location_value") THEN Raise("KeyError", sc)
    ELSE IF msg.location_value = PyNone THEN Return(NoResponse, sc)
    ELSE IF msg.location_value.dim # 1 THEN Raise("TypeError", sc)
    ELSE IF Len(msg.location_value.v) < 3 THEN Raise("IndexError", sc)
    ELSE Return(NoResponse,
                SetObject(sc, ref, [Object(sc, ref) EXCEPT
                                       !.location = SubSeq(msg.location_value.v, 1, 3)]))

HandleEntityPose(msg, sc) ==
    IF ~Has(msg, "uuid") THEN Raise("KeyError", sc)
    ELSE LET ref == get_object(msg.uuid, sc)
         IN IF ref.exc # "none" THEN Raise(ref.exc, sc)
            ELSE LET r == EntityPoseRotation(msg, sc, ref)
                 IN IF r.kind # "return" THEN r
                    ELSE LET l == EntityPoseLocation(msg, r.scene, ref)
                         IN IF l.kind # "return" THEN l
                            ELSE Return([result |-> "success"], l.scene)

HandleAddKeyframe(msg, sc) ==
    IF ~Has(msg, "uuid") THEN Raise("KeyError", sc)
    ELSE IF Lower(msg.uuid) # "camera" THEN Return([result |-> "added"], sc)
    ELSE IF ~Has(msg, "attribute") THEN Raise("KeyError", sc)
    ELSE IF Lower(msg.attribute) # "pose" THEN Return([result |-> "added"], sc)
    ELSE IF ~Has(msg, "value") THEN Raise("KeyError", sc)
    ELSE IF msg.value.dim = 0 THEN Raise("IndexError", sc)
    ELSE IF ~IsVector(Slice(msg.value, 0, 3), 3) THEN Raise("ValueError", sc)
    ELSE LET sc1 == [sc EXCEPT !.camera.location = Slice(msg.value, 0, 3).v,
                               !.camera.rotation_mode = "QUATERNION"]
         IN IF ~IsVector(Slice(msg.value, 3, 7), 4) THEN Raise("ValueError", sc1)
            ELSE LET sc2 == [sc1 EXCEPT !.camera.rotation_quaternion =
                                            Slice(msg.value, 3, 7).v]
                 IN IF ~Has(msg, "frame") THEN Raise("KeyError", sc2)
                    ELSE Return([result |-> "added"],
                                [sc2 EXCEPT
                                   !.animated = @ \cup {"relative_camera"},
                                   !.keyframes =
                                      {k \in @ : k[2] # msg.frame} \cup
                                      {<<"location", msg.frame, sc2.camera.location>>,
                                       <<"rotation_quaternion", msg.frame,
                                         sc2.camera.rotation_quaternion>>}])


\* keyframe_points.insert putting the keyframe in front of the others
InsertPointFirst(points, kf) == <<kf>> \o points

\* keyframe_points.insert: the keyframe at a frame that holds one already is
\* replaced, the points stay in frame order
InsertPoint(points, kf) ==
    LET before == SelectSeq(points, LAMBDA k : k.frame < kf.frame)
        after == SelectSeq(points, LAMBDA k : k.frame > kf.frame)
    IN before \o <<kf>> \o after

\* lines 191-204, one sample v: a pair (frame, value) or a triple of pairs
\* (left handle, point, right handle)
RECURSIVE InsertSamples(_, _, _)
InsertSamples(values, mode, points) ==
    IF values = <<>> THEN [exc |-> "none", points |-> points]
    ELSE LET v == Head(values)
         IN IF mode \in {"constant", "linear"}
            THEN IF v.shape # "pair" THEN [exc |-> "TypeError", points |-> points]
                 ELSE InsertSamples(Tail(values), mode,
                        InsertPoint(points,
                          [frame |-> v.p[1], value |-> v.p[2],
                           interpolation |-> IF mode = "constant" THEN "CONSTANT" ELSE "LINEAR",
                           handle_left |-> <<>>, handle_left_type |-> "default",
                           handle_right |-> <<>>, handle_right_type |-> "default"]))
            ELSE IF v.shape # "triple" THEN [exc |-> "TypeError", points |-> points]
                 ELSE InsertSamples(Tail(values), mode,
                        InsertPoint(points,
                          [frame |-> v.p[1], value |-> v.p[2],
                           interpolation |-> "BEZIER",
                           handle_left |-> v.l, handle_left_type |-> "ALIGNED",
                           handle_right |-> v.r, handle_right_type |-> "ALIGNED"]))

HandleAddAnimationFcurve(msg, sc) ==
    IF ~Has(msg, "uuid") THEN Raise("KeyError", sc)
    ELSE LET ref == get_object(msg.uuid, sc)
         IN IF ref.exc # "none" THEN Raise(ref.exc, sc)
            ELSE LET target == IF ref.in = "assets" THEN ref.name ELSE
                               IF ref.in = "camera" THEN "relative_camera" ELSE "camera_base"
                     sc1 == [sc EXCEPT !.animated = @ \cup {target}]
                 IN IF ~Has(msg, "data_path") \/ ~Has(msg, "index") THEN Raise("KeyError", sc1)
                    ELSE IF \E i \in 1..Len(sc1.fcurves) :
                               /\ sc1.fcurves[i].target = target
                               /\ sc1.fcurves[i].data_path = msg.data_path
                               /\ sc1.fcurves[i].index = msg.index
                         THEN Raise("RuntimeError", sc1)
                    ELSE LET fc == [target |-> target, data_path |-> msg.data_path,
                                    index |-> msg.index, points |-> <<>>]
                             sc2 == [sc1 EXCEPT !.fcurves = Append(@, fc)]
                             n == Len(sc2.fcurves)
                         IN IF ~Has(msg, "values") THEN Raise("KeyError", sc2)
                            ELSE IF msg.values = <<>> THEN Return([result |-> "added"], sc2)
                            ELSE IF ~Has(msg, "mode") THEN Raise("KeyError", sc2)
                            ELSE LET ins == InsertSamples(msg.values, msg.mode, <<>>)
                                     sc3 == [sc2 EXCEPT !.fcurves[n].points = ins.points]
                                 IN IF ins.exc # "none" THEN Raise(ins.exc, sc3)
                                    ELSE Return([result |-> "added"], sc3)

HandleEnvmap(msg, sc) ==
    LET sc1 == [rebuild_world_surface(sc) EXCEPT !.world = "no image"]
    IN IF ~Has(msg, "data") THEN Raise("KeyError", sc1)
       ELSE IF ~(Len(msg.data.shape) = 3 /\ msg.data.shape[3] = 3)
            THEN Raise("AssertionError", sc1)
       ELSE LET sc2 == [sc1 EXCEPT !.world = "image, no output"]
            IN IF ~Has(msg, "rotation") THEN Raise("KeyError", sc2)
               ELSE Return([result |-> "success"], [sc2 EXCEPT !.world = "envmap"])

HandleRender(msg, sc) ==
    IF ~Has(msg, "quality") THEN Raise("KeyError", sc)
    ELSE LET sc1 == [sc EXCEPT !.render = <<msg.quality>>]
         IN IF ~Has(msg, "path") THEN Raise("KeyError", sc1)
            ELSE Return([result |-> "rendered"],
                        [sc1 EXCEPT !.render = <<msg.quality, msg.path>>])

\* exec(script) for the scripts the clients send: one that does nothing, one
\* that looks a missing key up, and two that raise an exception by name; what
\* the script raises leaves exec and handle_cmds as it is
HandleEval(msg, sc) ==
    IF ~Has(msg, "script") THEN Raise("KeyError", sc)
    ELSE IF msg.script = "{}['k']" THEN Raise("KeyError", sc)
    ELSE IF msg.script = "raise ConnectionRefusedError"
         THEN Raise("ConnectionRefusedError", sc)
    ELSE IF msg.script = "raise ReferenceError" THEN Raise("ReferenceError", sc)
    ELSE Return([result |-> "success"], sc)

\* save answering with a result of its own
HandleSaveSaved(msg, sc) ==
    IF ~Has(msg, "path") THEN Raise("KeyError", sc)
    ELSE Return([result |-> "saved"], [sc EXCEPT !.saved = <<msg.path>>])

HandleSave(msg, sc) ==
    IF ~Has(msg, "path") THEN Raise("KeyError", sc)
    ELSE Return([result |-> "success"], [sc EXCEPT !.saved = <<msg.path>>])

handle_cmds(msg, sc) ==
    IF ~Has(msg, "cmd") THEN Raise("KeyError", sc)
    ELSE CASE msg.cmd = "entity" -> HandleEntity(msg, sc)
           [] msg.cmd = "clear" -> HandleClear(msg, sc)
           [] msg.cmd = "camera" -> HandleCamera(msg, sc)
           [] msg.cmd = "get_entity" -> HandleGetEntity(msg, sc)
           [] msg.cmd = "light" -> HandleLight(msg, sc)
           [] msg.cmd = "entity_pose" -> HandleEntityPose(msg, sc)
           [] msg.cmd = "add_keyframe" -> HandleAddKeyframe(msg, sc)
           [] msg.cmd = "add_animation_fcurve" -> HandleAddAnimationFcurve(msg, sc)
           [] msg.cmd = "envmap" -> HandleEnvmap(msg, sc)
           [] msg.cmd = "render" -> HandleRender(msg, sc)
           [] msg.cmd = "eval" -> HandleEval(msg, sc)
           [] msg.cmd = "save" -> HandleSave(msg, sc)
           [] msg.cmd = "detach" -> Raise("ConnectionRefusedError", sc)
           [] OTHER -> Raise("NotImplementedError", sc)


---------------------------------------------------------------------------
(* The commands the clients send *)

PoseA == <<1, 2, 3, 1, 0, 0, 0>>
QuatA == <<0, 1, 0, 0>>
LocA == <<4, 5, 6>>

EntityCommands ==
    {[cmd |-> "entity", geometry_type |-> "mesh", pose |-> Flat(PoseA)],
     [cmd |-> "entity", geometry_type |-> "mesh"]}

CameraCommands ==
    {[cmd |-> "camera", pose |-> Flat(PoseA)],
     [cmd |-> "camera", pose |-> Nested(PoseA)],
     [cmd |-> "camera", intrinsic |-> Flat(<<640, 480, 0, 0, 1>>)]}

GetEntityCommands ==
    {[cmd |-> "get_entity", uuid |-> "g1"]}

LightCommands ==
    {[cmd |-> "light", type |-> "SUN", energy |-> 5, angle |-> 1,
      pos |-> Flat(LocA), rot |-> Flat(QuatA)]}

EntityPoseCommands ==
    {[cmd |-> "entity_pose", uuid |-> "g1", rotation_mode |-> "QUATERNION",
      rotation_value |-> Flat(QuatA), location_value |-> Flat(LocA)],
     [cmd |-> "entity_pose", uuid |-> "g1", rotation_mode |-> "EULER",
      rotation_value |-> Flat(LocA), location_value |-> Flat(LocA)],
     [cmd |-> "entity_pose", uuid |-> "g1", rotation_mode |-> "None",
      rotation_value |-> PyNone, location_value |-> PyNone],
     [cmd |-> "entity_pose", uuid |-> "g1", rotation_mode |-> "QUATERNION",
      rotation_value |-> Flat(QuatA)]}

KeyframeCommands ==
    {[cmd |-> "add_keyframe", uuid |-> "camera", attribute |-> "pose",
      value |-> Flat(PoseA), frame |-> 1],
     [cmd |-> "add_keyframe", uuid |-> "g1", attribute |-> "pose"]}

FcurveCommands ==
    {[cmd |-> "add_animation_fcurve", uuid |-> "g1", data_path |-> "location",
      index |-> 0, mode |-> "linear",
      values |-> <<[shape |-> "pair", p |-> <<1, 7>>]>>],
     [cmd |-> "add_animation_fcurve", uuid |-> "relative_camera",
      data_path |-> "location", index |-> 0, values |-> <<>>]}

EnvmapCommands ==
    {[cmd |-> "envmap", data |-> [shape |-> <<2, 4, 3>>], rotation |-> Flat(<<0, 0, 0>>)]}

OtherCommands ==
    {[cmd |-> "clear"],
     [cmd |-> "render", quality |-> 8, path |-> "out.png"],
     [cmd |-> "eval", script |-> "pass"],
     [cmd |-> "eval", script |-> "{}['k']"],
     [cmd |-> "save", path |-> "scene.blend"],
     [cmd |-> "detach"],
     [cmd |-> "shutdown"]}

Commands ==
    EntityCommands \cup CameraCommands \cup GetEntityCommands \cup LightCommands
    \cup EntityPoseCommands \cup KeyframeCommands \cup FcurveCommands
    \cup EnvmapCommands \cup OtherCommands

---------------------------------------------------------------------------
(* The session: the queues and the two drivers *)

Init ==
    /\ background \in BOOLEAN
    /\ cmd_queue = <<>>
    /\ res_queue = <<>>
    /\ pc = "poll"
    /\ new_command = NoCommand
    /\ ret = IF background THEN "started" ELSE "RUNNING_MODAL"
    /\ manager = "running"
    /\ timer = ~background
    /\ scene = InitScene
    /\ notified = 0
    /\ pushed = <<>>
    /\ trace = <<>>

\* a client's cmd_queue.put(msg) through its proxy; the manager serves each
\* call under the queue's lock, so the puts of any number of clients are an
\* interleaving of this step
ClientPush(msg) ==
    /\ manager = "running"
    /\ Len(pushed) < MaxPush
    /\ cmd_queue' = Append(cmd_queue, msg)
    /\ pushed' = Append(pushed, msg)
    /\ UNCHANGED <<background, res_queue, pc, new_command, ret, manager, timer,
                   scene, notified, trace>>

\* one entry of the history of handle_cmds calls: the command, the uuids the
\* AssetManager held before it, how handle_cmds ended, whether a Response
\* was put and which, and the length of res_queue after the step
Entry(msg, sc, kind, put, res, nres) ==
    [msg |-> msg, held |-> DOMAIN sc.assets, kind |-> kind, put |-> put,
     res |-> res, nres |-> nres]

\* get_nowait taking the newest command instead of the oldest
get_nowait_newest(q) == [item |-> q[Len(q)], rest |-> SubSeq(q, 1, Len(q) - 1)]

\* cmd_queue.get_nowait() on a queue that is not empty
get_nowait(q) == [item |-> Head(q), rest |-> Tail(q)]

\* the Response put twice
RespondTwice(q, res) == IF res = NoResponse THEN q ELSE Append(Append(q, res), res)

\* lines 340-341 and 531-532: if res is not None: res_queue.put(res)
Respond(q, res) == IF res = NoResponse THEN q ELSE Append(q, res)

\* modal without its except ConnectionRefusedError clause
modal_except_no_detach(kind) ==
    CASE kind = "return" -> "put"
      [] kind = "KeyError" -> "failed"
      [] kind = "ReferenceError" -> "cancel"
      [] OTHER -> "escape"

\* modal without its except KeyError clause
modal_except_no_keyerror(kind) ==
    CASE kind = "return" -> "put"
      [] kind = "ConnectionRefusedError" -> "detach"
      [] kind = "ReferenceError" -> "cancel"
      [] OTHER -> "escape"

\* what modal and _modal do with the way handle_cmds ended (lines 306-309,
\* 327-341)
modal_except(kind) ==
    CASE kind = "return" -> "put"
      [] kind = "KeyError" -> "failed"
      [] kind = "ConnectionRefusedError" -> "detach"
      [] kind = "ReferenceError" -> "cancel"
      [] OTHER -> "escape"

\* the while loop with except Exception in place of except KeyError
loop_except_any(kind) ==
    CASE kind = "return" -> "put"
      [] kind = "ConnectionRefusedError" -> "detach"
      [] OTHER -> "failed"

\* what the while loop does with the way handle_cmds ended (lines 519-532)
loop_except(kind) ==
    CASE kind = "return" -> "put"
      [] kind = "KeyError" -> "failed"
      [] kind = "ConnectionRefusedError" -> "detach"
      [] OTHER -> "escape"

\* the call of handle_cmds and what follows it in the driver. todo is what
\* the driver's except clauses make of the call, stop what the driver returns
\* when it ends itself, gone the state of the manager once an exception has
\* escaped the driver
Dispatch(todo, stop, gone) ==
    LET out == handle_cmds(new_command, scene)
        res == IF todo = "put" THEN out.res
               ELSE IF todo = "failed" THEN [result |-> "failed"]
               ELSE NoResponse
        q == Respond(res_queue, res)
    IN /\ pc = "handle"
       /\ scene' = out.scene
       /\ new_command' = NoCommand
       /\ trace' = Append(trace, Entry(new_command, scene, out.kind,
                                       q # res_queue, res, Len(q)))
       /\ IF todo \in {"put", "failed"}
          THEN /\ res_queue' = q
               /\ pc' = "poll"
               /\ ret' = IF background THEN "continue" ELSE "PASS_THROUGH"
               /\ UNCHANGED <<manager, timer>>
          ELSE /\ UNCHANGED res_queue
               /\ pc' = "stopped"
               /\ IF todo = "detach"
                  THEN /\ manager' = "shutdown"
                       /\ timer' = FALSE
                       /\ ret' = stop
                  ELSE IF todo = "cancel"
                  THEN /\ ret' = stop
                       /\ UNCHANGED <<manager, timer>>
                  ELSE /\ ret' = out.kind
                       /\ manager' = gone
                       /\ UNCHANGED timer
       /\ UNCHANGED <<background, cmd_queue, notified, pushed>>

\* ClientOperator.modal on an event that is no TIMER event
ModalOtherEvent ==
    /\ ~background /\ pc = "poll"
    /\ ret' = "PASS_THROUGH"
    /\ UNCHANGED <<background, cmd_queue, res_queue, pc, new_command, manager,
                   timer, scene, notified, pushed, trace>>

\* the TIMER step with a blocking get: on an empty queue it waits inside modal
ModalTimerEmptyBlocks ==
    /\ ~background /\ pc = "poll" /\ timer
    /\ cmd_queue = <<>>
    /\ pc' = "waiting"
    /\ UNCHANGED <<background, cmd_queue, res_queue, ret, new_command, manager,
                   timer, scene, notified, pushed, trace>>

\* ClientOperator.modal on a TIMER event, cmd_queue empty (line 325)
ModalTimerEmpty ==
    /\ ~background /\ pc = "poll" /\ timer
    /\ cmd_queue = <<>>
    /\ ret' = "PASS_THROUGH"
    /\ UNCHANGED <<background, cmd_queue, res_queue, pc, new_command, manager,
                   timer, scene, notified, pushed, trace>>

\* a TIMER step that starts while the previous one is still in handle_cmds
ModalTimerPopReentrant ==
    /\ ~background /\ pc \in {"poll", "handle"} /\ timer
    /\ cmd_queue # <<>>
    /\ new_command' = Head(cmd_queue)
    /\ cmd_queue' = Tail(cmd_queue)
    /\ pc' = "handle"
    /\ UNCHANGED <<background, res_queue, ret, manager, timer, scene, notified,
                   pushed, trace>>

\* ClientOperator.modal on a TIMER event: get_nowait (line 324)
ModalTimerPop ==
    /\ ~background /\ pc = "poll" /\ timer
    /\ cmd_queue # <<>>
    /\ new_command' = get_nowait(cmd_queue).item
    /\ cmd_queue' = get_nowait(cmd_queue).rest
    /\ pc' = "handle"
    /\ UNCHANGED <<background, res_queue, ret, manager, timer, scene, notified,
                   pushed, trace>>

\* ClientOperator.modal, the rest of the TIMER step. An exception that
\* escapes modal ends the operator; Blender and the manager keep running
ModalHandle ==
    /\ ~background
    /\ Dispatch(modal_except(handle_cmds(new_command, scene).kind),
                "CANCELLED", "running")

\* the while loop, cmd_queue empty: sleep and retry (lines 516-518)
\* the while loop leaving at an empty queue
LoopEmptyBreaks ==
    /\ background /\ pc = "poll"
    /\ cmd_queue = <<>>
    /\ pc' = "stopped"
    /\ ret' = "break"
    /\ UNCHANGED <<background, cmd_queue, res_queue, new_command, manager,
                   timer, scene, notified, pushed, trace>>

LoopEmpty ==
    /\ background /\ pc = "poll"
    /\ cmd_queue = <<>>
    /\ ret' = "sleep"
    /\ UNCHANGED <<background, cmd_queue, res_queue, pc, new_command, manager,
                   timer, scene, notified, pushed, trace>>

\* the while loop: get_nowait (line 515)
LoopPop ==
    /\ background /\ pc = "poll"
    /\ cmd_queue # <<>>
    /\ new_command' = get_nowait(cmd_queue).item
    /\ cmd_queue' = get_nowait(cmd_queue).rest
    /\ pc' = "handle"
    /\ UNCHANGED <<background, res_queue, ret, manager, timer, scene, notified,
                   pushed, trace>>

\* the while loop, the rest of the iteration. An exception that escapes the
\* loop ends the script and with it the process and its manager
LoopHandle ==
    /\ background
    /\ Dispatch(loop_except(handle_cmds(new_command, scene).kind),
                "break", "exited")

\* PYCG_OT_host_notify.execute, run by Blender between modal steps; the put
\* fails once the manager is gone
HostNotify ==
    /\ ~background /\ pc # "handle"
    /\ notified < MaxNotify
    /\ notified' = notified + 1
    /\ res_queue' = IF manager = "running"
                    THEN Respond(res_queue, [result |-> "notify"])
                    ELSE res_queue
    /\ UNCHANGED <<background, cmd_queue, pc, new_command, ret, manager, timer,
                   scene, pushed, trace>>

Next ==
    \/ \E msg \in Commands : ClientPush(msg)
    \/ ModalOtherEvent
    \/ ModalTimerEmpty
    \/ ModalTimerPop
    \/ ModalHandle
    \/ LoopEmpty
    \/ LoopPop
    \/ LoopHandle
    \/ HostNotify

Spec == Init /\ [][Next]_vars

\* The same session with clients that send commands whose fields are there
\* but have the wrong shape or value, and scripts that raise
MistypedCommands ==
    {[cmd |-> "envmap", data |-> [shape |-> <<2, 4>>], rotation |-> Flat(<<0, 0, 0>>)],
     [cmd |-> "entity", geometry_type |-> "mesh", pose |-> Flat(<<1, 2, 3>>)],
     [cmd |-> "light", type |-> "HEMI", energy |-> 5, angle |-> 1,
      pos |-> Flat(LocA), rot |-> Flat(QuatA)],
     [cmd |-> "add_animation_fcurve", uuid |-> "relative_camera",
      data_path |-> "location", index |-> 0, mode |-> "cubic",
      values |-> <<[shape |-> "pair", p |-> <<1, 7>>]>>]}

ScriptCommands ==
    {[cmd |-> "eval", script |-> "pass"],
     [cmd |-> "eval", script |-> "raise ConnectionRefusedError"],
     [cmd |-> "eval", script |-> "raise ReferenceError"]}

FaultCommands ==
    MistypedCommands \cup ScriptCommands \cup
    {[cmd |-> "entity", geometry_type |-> "mesh", pose |-> Flat(PoseA)],
     [cmd |-> "get_entity", uuid |-> "g1"],
     [cmd |-> "light", type |-> "SUN", angle |-> 1,
      pos |-> Flat(LocA), rot |-> Flat(QuatA)],
     [cmd |-> "render", quality |-> 8, path |-> "out.png"],
     [cmd |-> "detach"],
     [cmd |-> "shutdown"]}

NextFaults ==
    \/ \E msg \in FaultCommands : ClientPush(msg)
    \/ ModalOtherEvent
    \/ ModalTimerEmpty
    \/ ModalTimerPop
    \/ ModalHandle
    \/ LoopEmpty
    \/ LoopPop
    \/ LoopHandle
    \/ HostNotify

SpecFaults == Init /\ [][NextFaults]_vars

\* The session with clients that build animation curves on the two cameras:
\* samples in frame order, out of frame order and with a frame twice, in
\* each of the modes
CurveCommands ==
    {[cmd |-> "add_animation_fcurve", uuid |-> "relative_camera",
      data_path |-> "location", index |-> 0, mode |-> "linear",
      values |-> <<[shape |-> "pair", p |-> <<1, 7>>],
                   [shape |-> "pair", p |-> <<2, 8>>]>>],
     [cmd |-> "add_animation_fcurve", uuid |-> "relative_camera",
      data_path |-> "location", index |-> 1, mode |-> "constant",
      values |-> <<[shape |-> "pair", p |-> <<2, 8>>],
                   [shape |-> "pair", p |-> <<1, 7>>]>>],
     [cmd |-> "add_animation_fcurve", uuid |-> "camera_base",
      data_path |-> "location", index |-> 0, mode |-> "linear",
      values |-> <<[shape |-> "pair", p |-> <<1, 7>>],
                   [shape |-> "pair", p |-> <<1, 9>>]>>],
     [cmd |-> "add_animation_fcurve", uuid |-> "camera_base",
      data_path |-> "location", index |-> 1, mode |-> "bezier",
      values |-> <<[shape |-> "triple", l |-> <<0, 7>>, p |-> <<1, 7>>, r |-> <<2, 7>>],
                   [shape |-> "triple", l |-> <<2, 8>>, p |-> <<3, 8>>, r |-> <<4, 8>>]>>],
     [cmd |-> "add_animation_fcurve", uuid |-> "camera_base",
      data_path |-> "location", index |-> 2, mode |-> "constant",
      values |-> <<[shape |-> "pair", p |-> <<1, 7>>],
                   [shape |-> "pair", p |-> <<3, 7>>]>>],
     [cmd |-> "add_animation_fcurve", uuid |-> "relative_camera",
      data_path |-> "location", index |-> 2, mode |-> "bezier",
      values |-> <<>>],
     [cmd |-> "clear"],
     [cmd |-> "detach"]}

NextCurves ==
    \/ \E msg \in CurveCommands : ClientPush(msg)
    \/ ModalOtherEvent
    \/ ModalTimerEmpty
    \/ ModalTimerPop
    \/ ModalHandle
    \/ LoopEmpty
    \/ LoopPop
    \/ LoopHandle
    \/ HostNotify

SpecCurves == Init /\ [][NextCurves]_vars

\* The session with a driver that keeps being scheduled: Blender delivers the
\* TIMER events of the timer that invoke registered (line 363) and runs the
\* modal callback to its end; the while loop (line 513) is the only thread of
\* its process and runs on after each sleep. Clients are under no obligation.
LiveCommands ==
    {[cmd |-> "entity", geometry_type |-> "mesh", pose |-> Flat(PoseA)],
     [cmd |-> "get_entity", uuid |-> "g1"],
     [cmd |-> "light", type |-> "SUN", angle |-> 1,
      pos |-> Flat(LocA), rot |-> Flat(QuatA)],
     [cmd |-> "eval", script |-> "raise ReferenceError"],
     [cmd |-> "detach"],
     [cmd |-> "shutdown"]}

NextLive ==
    \/ \E msg \in LiveCommands : ClientPush(msg)
    \/ ModalOtherEvent
    \/ ModalTimerEmpty
    \/ ModalTimerPop
    \/ ModalHandle
    \/ LoopEmpty
    \/ LoopPop
    \/ LoopHandle
    \/ HostNotify

SpecLive ==
    /\ Init /\ [][NextLive]_vars
    /\ WF_vars(ModalTimerPop) /\ WF_vars(ModalHandle)
    /\ WF_vars(LoopPop) /\ WF_vars(LoopHandle)


---------------------------------------------------------------------------
(* The vocabulary of the command table *)

Kinds ==
    {"entity", "clear", "camera", "get_entity", "light", "entity_pose",
     "add_keyframe", "add_animation_fcurve", "envmap", "render", "eval", "save",
     "detach"}

Results == {"created", "success", "got", "added", "rendered", "failed"}

\* the result the command table gives for a discriminator
TableResult(kind) ==
    CASE kind \in {"entity", "light"} -> "created"
      [] kind \in {"clear", "camera", "entity_pose", "envmap", "eval", "save"} -> "success"
      [] kind = "get_entity" -> "got"
      [] kind \in {"add_keyframe", "add_animation_fcurve"} -> "added"
      [] kind = "render" -> "rendered"

\* the required fields of the command table (those without a question mark)
Required(msg) ==
    CASE msg.cmd = "entity" -> {"geometry_type", "pose"}
      [] msg.cmd = "get_entity" -> {"uuid"}
      [] msg.cmd = "light" ->
            {"type", "energy", "pos", "rot"} \cup
            (IF Has(msg, "type") /\ msg.type \in LightTypes
             THEN {LightSizeField(msg.type)} ELSE {})
      [] msg.cmd = "entity_pose" -> {"uuid", "rotation_mode"}
      [] msg.cmd = "add_keyframe" -> {"uuid", "attribute", "value", "frame"}
      [] msg.cmd = "add_animation_fcurve" -> {"uuid", "data_path", "index", "mode", "values"}
      [] msg.cmd = "envmap" -> {"data", "rotation"}
      [] msg.cmd = "render" -> {"quality", "path"}
      [] msg.cmd = "eval" -> {"script"}
      [] msg.cmd = "save" -> {"path"}
      [] OTHER -> {}

Recognized(msg) == Has(msg, "cmd") /\ msg.cmd \in Kinds
Complete(msg) == Recognized(msg) /\ Required(msg) \subseteq DOMAIN msg

\* the uuid of the command addresses an object: a reserved name or a uuid
\* the AssetManager holds
Resolves(msg, held) ==
    msg.cmd \in {"get_entity", "entity_pose", "add_animation_fcurve"}
        => msg.uuid \in held \cup {"relative_camera", "camera_base"}

\* the fields of the command have the shapes and values of the command table
Shaped(msg) ==
    /\ Has(msg, "pose") => IsVector(msg.pose, 7)
    /\ Has(msg, "intrinsic") => IsVector(msg.intrinsic, 5)
    /\ msg.cmd = "light" => msg.type \in {"SUN", "POINT", "SPOT", "AREA"}
    /\ msg.cmd = "entity_pose" =>
          msg.rotation_mode \in {"QUATERNION", "AXIS_ANGLE", "EULER", "None"}
    /\ msg.cmd = "add_keyframe" =>
          msg.uuid = "camera" /\ msg.attribute = "pose" /\ IsVector(msg.value, 7)
    /\ msg.cmd = "add_animation_fcurve" => msg.mode \in {"constant", "linear", "bezier"}
    /\ msg.cmd = "envmap" => Len(msg.data.shape) = 3 /\ msg.data.shape[3] = 3
    /\ msg.cmd = "eval" => msg.script = "pass"

WellFormed(msg, held) == Complete(msg) /\ Resolves(msg, held) /\ Shaped(msg)

\* the session is over: the driver has stopped
Stopped == pc = "stopped"
Detached == Stopped /\ manager = "shutdown"
Faulted == Stopped /\ manager # "shutdown"

\* what the dispatcher has put on res_queue, and what host_notify has
DispatcherResponses == SelectSeq(res_queue, LAMBDA r : r.result # "notify")
Notifications == SelectSeq(res_queue, LAMBDA r : r.result = "notify")

\* the commands taken off cmd_queue so far, in order
Popped ==
    [i \in 1..Len(trace) |-> trace[i].msg]
        \o (IF pc = "handle" THEN <<new_command>> ELSE <<>>)

\* the responses of the commands that were answered, in the order of the commands
Answers ==
    LET a == SelectSeq(trace, LAMBDA e : e.put)
    IN [i \in 1..Len(a) |-> a[i].res]


---------------------------------------------------------------------------
(* C1 *)

\* C1: every well-formed command other than detach that has been handled was
\* answered with exactly one Response, whose result is the command table's
\* result for the command's discriminator.
C1_WellFormedCommandAnswered ==
    \A i \in 1..Len(trace) :
        LET e == trace[i]
        IN (WellFormed(e.msg, e.held) /\ e.msg.cmd # "detach")
              => /\ e.put
                 /\ e.res.result = TableResult(e.msg.cmd)

---------------------------------------------------------------------------
(* C2 *)

\* C2: the commands popped are, in order, the commands pushed: what has been
\* popped followed by what is still queued is what was pushed; and the
\* Responses the dispatcher has put are, in order, the Responses of the
\* commands it answered.
C2_FifoOrder ==
    /\ Popped \o cmd_queue = pushed
    /\ DispatcherResponses = Answers

\* two different commands were pushed, popped and answered with different
\* Responses
C2_Witness ==
    /\ Len(trace) = 2
    /\ trace[1].put /\ trace[2].put
    /\ trace[1].msg # trace[2].msg
    /\ trace[1].res # trace[2].res

---------------------------------------------------------------------------
(* C3 *)

\* C3: every handled command of a recognized kind that lacks a required field
\* was answered with exactly {result: failed}, and the session went on
\* listening after it.
C3_MissingFieldAnswersFailed ==
    \A i \in 1..Len(trace) :
        LET e == trace[i]
        IN (Recognized(e.msg) /\ ~Complete(e.msg))
              => /\ e.put
                 /\ e.res = [result |-> "failed"]
                 /\ (i = Len(trace) => ~Stopped)


---------------------------------------------------------------------------
(* C4 *)

\* C4: a handled detach is the last command handled: no Response was put for
\* it, the manager is shut down, the driver has stopped (the timer removed
\* and CANCELLED returned, or the loop left by break), and res_queue has not
\* grown since.
C4_DetachIsTerminal ==
    \A i \in 1..Len(trace) :
        LET e == trace[i]
        IN (Has(e.msg, "cmd") /\ e.msg.cmd = "detach")
              => /\ i = Len(trace)
                 /\ ~e.put
                 /\ Detached
                 /\ ~timer
                 /\ ret = (IF background THEN "break" ELSE "CANCELLED")
                 /\ Len(res_queue) = e.nres

\* a detach was handled while a command was queued behind it
C4_Witness ==
    /\ trace # <<>>
    /\ trace[Len(trace)].msg = [cmd |-> "detach"]
    /\ cmd_queue # <<>>

---------------------------------------------------------------------------
(* C5 *)

\* C5: a handled command whose discriminator is none of the thirteen kinds is
\* the last command handled: no Response was put for it, the driver has
\* stopped without the manager being shut down by detach, and the dispatcher
\* has put no Response since.
C5_UnknownDiscriminatorFaults ==
    \A i \in 1..Len(trace) :
        LET e == trace[i]
        IN (Has(e.msg, "cmd") /\ e.msg.cmd \notin Kinds)
              => /\ i = Len(trace)
                 /\ ~e.put
                 /\ Faulted
                 /\ Len(DispatcherResponses)
                       = Cardinality({j \in 1..(i - 1) : trace[j].put})

\* a command of an unknown kind was handled while a command was queued
\* behind it
C5_Witness ==
    /\ trace # <<>>
    /\ trace[Len(trace)].msg.cmd \notin Kinds
    /\ cmd_queue # <<>>

---------------------------------------------------------------------------
(* C6 *)

\* C6: the commands popped and not yet done with are at most one, and there
\* is one exactly while the driver is inside its step.
C6_OneStepAtATime ==
    LET popped == Len(pushed) - Len(cmd_queue)
        done == Len(trace)
    IN /\ popped - done = (IF pc = "handle" THEN 1 ELSE 0)
       /\ pc = "handle" <=> new_command # NoCommand

\* a command is being handled while another one waits in cmd_queue
C6_Witness == pc = "handle" /\ cmd_queue # <<>>

---------------------------------------------------------------------------
(* C7 *)

\* C7: a step of the driver takes at most one command off cmd_queue, and none
\* once a command is in hand; with the modal operator polling and cmd_queue
\* empty no step starts handle_cmds, changes the scene or the session, or puts
\* a Response other than a notification; and a modal step that returns without
\* a command returns PASS_THROUGH and changes nothing else.
C7_EmptyStepDoesNothing ==
    /\ [][Len(cmd_queue') >= Len(cmd_queue) - 1]_vars
    /\ [][pc = "handle" => Len(cmd_queue') >= Len(cmd_queue)]_vars
    /\ [][(~background /\ pc = "poll" /\ cmd_queue = <<>>)
            => /\ pc' = "poll"
               /\ UNCHANGED <<new_command, scene, trace, manager, timer>>
               /\ ret' \in {ret, "PASS_THROUGH"}
               /\ res_queue' \in {res_queue, Append(res_queue, [result |-> "notify"])}]_vars
    /\ [][(~background /\ pc = "poll" /\ ret' # ret)
            => /\ ret' = "PASS_THROUGH"
               /\ UNCHANGED <<cmd_queue, res_queue, pc, new_command, scene, trace,
                              manager, timer>>]_vars

\* the modal operator has returned PASS_THROUGH although no command was ever
\* pushed
C7_Witness ==
    ~background /\ pushed = <<>> /\ ret = "PASS_THROUGH" /\ pc = "poll"

---------------------------------------------------------------------------
(* C8 *)

\* C8 as claimed: the messages on res_queue are at most as many as the
\* commands popped.
C8_ResponsesAtMostPops == Len(res_queue) <= Len(Popped)

\* C8 as amended: the Responses other than notifications are at most as many
\* as the commands popped; the other messages on res_queue are the
\* notifications of host_notify, at most one per use of that operator and
\* none in background mode.
C8_DispatcherResponsesAtMostPops ==
    /\ Len(DispatcherResponses) <= Len(Popped)
    /\ Len(Notifications) <= notified
    /\ background => Notifications = <<>>

\* res_queue holds a notification and more messages than commands were popped
C8_Witness ==
    /\ Len(res_queue) > Len(Popped)
    /\ Notifications # <<>>
    /\ DispatcherResponses # <<>>

---------------------------------------------------------------------------
(* C9 *)

\* C9 as claimed: every message on res_queue has a result among created,
\* success, got, added, rendered, failed.
C9_ResultInEnumeration ==
    \A i \in 1..Len(res_queue) :
        Has(res_queue[i], "result") /\ res_queue[i].result \in Results

\* C9 as amended: every message on res_queue has a result among created,
\* success, got, added, rendered, failed and notify, and notify only comes
\* from host_notify, that is, in GUI mode.
C9_ResultInEnumerationOrNotify ==
    \A i \in 1..Len(res_queue) :
        /\ Has(res_queue[i], "result")
        /\ res_queue[i].result \in Results \cup {"notify"}
        /\ res_queue[i].result = "notify" => (~background /\ notified > 0)

\* res_queue holds a notification and the Response of a save command
C9_Witness ==
    /\ \E i \in 1..Len(res_queue) : res_queue[i].result = "notify"
    /\ \E i \in 1..Len(trace) : trace[i].msg.cmd = "save" /\ trace[i].put

---------------------------------------------------------------------------
(* C10 *)

\* C10 as claimed: a {result: failed} Response was put only for commands that
\* lack a required field, and a command with all its required fields that
\* names a uuid the backend does not hold was not answered and ended the
\* session.
C10_OnlyMissingFieldAnswersFailed ==
    \A i \in 1..Len(trace) :
        LET e == trace[i]
        IN /\ (e.put /\ e.res.result = "failed")
                 => (Recognized(e.msg) /\ ~Complete(e.msg))
           /\ (Complete(e.msg) /\ ~Resolves(e.msg, e.held))
                 => (~e.put /\ i = Len(trace) /\ Stopped)

\* C10 as amended: a {result: failed} Response was put exactly for the
\* commands on which handle_cmds raised KeyError, which besides a missing
\* field that handle_cmds reads covers a uuid the AssetManager table does not
\* hold and a KeyError raised by an eval script, and the session went on
\* after them; a command on which handle_cmds raised anything else was not
\* answered and is the last one handled, the driver having stopped.
C10_FailedIffKeyError ==
    \A i \in 1..Len(trace) :
        LET e == trace[i]
        IN /\ (e.put /\ e.res.result = "failed") <=> e.kind = "KeyError"
           /\ e.kind = "KeyError" => (e.res = [result |-> "failed"]
                                      /\ (i = Len(trace) => ~Stopped))
           /\ (Complete(e.msg) /\ ~Resolves(e.msg, e.held)) => e.kind = "KeyError"
           /\ e.kind \notin {"return", "KeyError"}
                 => (~e.put /\ i = Len(trace) /\ Stopped)

\* a command with all its required fields was answered with failed, and the
\* command after it was answered as the command table says
C10_Witness ==
    /\ Len(trace) = 2
    /\ Complete(trace[1].msg)
    /\ trace[1].res = [result |-> "failed"]
    /\ trace[2].put
    /\ trace[2].res.result = TableResult(trace[2].msg.cmd)

---------------------------------------------------------------------------
(* C11 *)

\* a required field of the command is there and has the wrong shape or value
Mistyped(msg) ==
    /\ Complete(msg)
    /\ \/ msg.cmd = "envmap" /\ ~(Len(msg.data.shape) = 3 /\ msg.data.shape[3] = 3)
       \/ msg.cmd = "entity" /\ msg.pose.dim = 1 /\ Len(msg.pose.v) < 7
       \/ msg.cmd = "light" /\ msg.type \notin {"SUN", "POINT", "SPOT", "AREA"}
       \/ msg.cmd = "add_animation_fcurve"
             /\ msg.mode \notin {"constant", "linear", "bezier"}

\* C11: every handled command of a recognized kind whose required fields are
\* all there, one of them with the wrong shape or value, was answered with
\* the Response failed, and the session went on listening after it.
C11_MistypedFieldAnswersFailed ==
    \A i \in 1..Len(trace) :
        Mistyped(trace[i].msg)
            => /\ trace[i].put
               /\ trace[i].res = [result |-> "failed"]
               /\ (i = Len(trace) => ~Stopped)

---------------------------------------------------------------------------
(* C12 *)

\* C12: a step that answers a command of a recognized kind lacking a required
\* field with the Response failed leaves the scene as it was before the
\* command was popped.
C12_FailedLeavesSceneUnchanged ==
    [][(/\ pc = "handle"
        /\ Recognized(new_command) /\ ~Complete(new_command)
        /\ pc' = "poll"
        /\ res_queue' = Append(res_queue, [result |-> "failed"]))
          => scene' = scene]_vars

---------------------------------------------------------------------------
(* C13 *)

\* C13: whenever the session is Detached (the manager shut down, the driver
\* stopped), the command handled last is a detach command: no command of
\* another kind, an eval with any script included, takes the detach path.
C13_DetachedOnlyByDetach ==
    Detached => /\ trace # <<>>
                /\ trace[Len(trace)].msg.cmd = "detach"

---------------------------------------------------------------------------
(* C14 *)

\* what a driver (the dedicated one for bg, the cooperative one otherwise)
\* makes of a sequence of commands, one handle_cmds call after the other from
\* scene sc: the Responses it puts, the number of commands it handles before
\* it stops, whether it has stopped, and whether the port is released then
RECURSIVE DriverRun(_, _, _, _)
DriverRun(bg, msgs, sc, acc) ==
    IF msgs = <<>> \/ acc.stopped THEN acc
    ELSE LET out == handle_cmds(Head(msgs), sc)
             todo == IF bg THEN loop_except(out.kind) ELSE modal_except(out.kind)
             next ==
                CASE todo = "put" ->
                        [acc EXCEPT !.responses = Respond(@, out.res),
                                    !.handled = @ + 1]
                  [] todo = "failed" ->
                        [acc EXCEPT !.responses = Append(@, [result |-> "failed"]),
                                    !.handled = @ + 1]
                  [] todo = "detach" ->
                        [acc EXCEPT !.handled = @ + 1, !.stopped = TRUE,
                                    !.released = TRUE]
                  [] todo = "cancel" ->
                        [acc EXCEPT !.handled = @ + 1, !.stopped = TRUE]
                  [] OTHER ->
                        [acc EXCEPT !.handled = @ + 1, !.stopped = TRUE,
                                    !.released = bg]
         IN DriverRun(bg, Tail(msgs), out.scene, next)

\* the commands handled so far
Handled == [i \in 1..Len(trace) |-> trace[i].msg]

\* the run of a driver over the commands handled so far
RunOf(bg) ==
    DriverRun(bg, Handled, InitScene,
              [responses |-> <<>>, handled |-> 0, stopped |-> FALSE,
               released |-> FALSE])

\* the same of the session as it is
Observed ==
    [responses |-> DispatcherResponses, handled |-> Len(trace),
     stopped |-> Stopped, released |-> manager # "running"]

\* C14: given the commands the session's driver has handled so far, the
\* other driver puts the same Responses in the same order, stops after the
\* same command or not at all, and leaves the port released or held alike.
C14_DriversBehaveAlike == RunOf(~background) = Observed

\* DriverRun is the session's own driver
RunIsTheDriver == RunOf(background) = Observed

---------------------------------------------------------------------------
(* C15 *)

\* the handling of a command that ended the session: a detach or a fault
Ends(e) == e.kind \notin {"return", "KeyError"}

\* the k-th command pushed has been popped and answered, or a command pushed
\* no later than it has ended the session
AnsweredOrEnded(k) ==
    \/ Len(trace) >= k /\ trace[k].put
    \/ \E j \in 1..Len(trace) : j <= k /\ Ends(trace[j])

\* C15: with a driver that keeps being scheduled, every command pushed is
\* eventually popped and answered with a Response, unless it or a command
\* before it in the queue is a detach or faults; an empty queue at any time
\* before the push does not stop the driver.
C15_PushedIsAnswered ==
    \A k \in 1..MaxPush : (Len(pushed) >= k) ~> AnsweredOrEnded(k)

\* two commands pushed into an empty queue one after the other's answer,
\* both popped and answered
C15_Witness ==
    /\ Len(pushed) >= 2 /\ Len(trace) >= 2
    /\ trace[1].put /\ trace[2].put
    /\ trace[1].nres = 1
    /\ cmd_queue = <<>> /\ pc = "poll"

---------------------------------------------------------------------------
(* C16 *)

\* C16: whenever the cooperative driver has stopped, its modal callback
\* having returned CANCELLED, the manager has been shut down and the timer
\* removed.
C16_CancelledReleasesPortAndTimer ==
    (~background /\ Stopped /\ ret = "CANCELLED")
        => (manager = "shutdown" /\ ~timer)

---------------------------------------------------------------------------
(* C17 *)

\* a command that addresses an object by uuid and is otherwise in order: all
\* the fields its branch reads are there and have the shapes Blender takes
Addresses(msg, uuid) ==
    /\ Complete(msg) /\ Shaped(msg)
    /\ msg.cmd \in {"entity_pose", "get_entity", "add_animation_fcurve"}
    /\ msg.uuid = uuid
    /\ msg.cmd = "entity_pose" =>
          /\ msg.rotation_mode # "EULER"
          /\ {"rotation_value", "location_value"} \subseteq DOMAIN msg

\* C17: a uuid returned in a created Response, of an entity or of a light,
\* addresses the object in the commands handled later with no clear in
\* between: an entity_pose, get_entity or add_animation_fcurve naming it is
\* answered success, got or added.
C17_CreatedUuidAddressesObject ==
    \A i, j \in 1..Len(trace) :
        (/\ i < j
         /\ trace[i].put /\ trace[i].res.result = "created"
         /\ Addresses(trace[j].msg, trace[i].res.uuid)
         /\ \A k \in (i + 1)..(j - 1) : trace[k].msg.cmd # "clear")
            => /\ trace[j].put
               /\ trace[j].res.result = TableResult(trace[j].msg.cmd)

---------------------------------------------------------------------------
(* C18 *)

\* C18: an entity_pose that names an existing object and carries its
\* rotation_value and location_value is answered success for each
\* rotation_mode of QUATERNION, AXIS_ANGLE, EULER and null.
C18_EntityPoseAnsweredSuccess ==
    \A i \in 1..Len(trace) :
        LET e == trace[i]
        IN (/\ e.msg.cmd = "entity_pose"
            /\ Complete(e.msg) /\ Resolves(e.msg, e.held)
            /\ {"rotation_value", "location_value"} \subseteq DOMAIN e.msg
            /\ e.msg.rotation_mode \in {"QUATERNION", "AXIS_ANGLE", "EULER", "None"})
              => /\ e.put
                 /\ e.res = [result |-> "success"]

---------------------------------------------------------------------------
(* C19 *)

\* C19: a camera command whose pose, when there, has the 7 components xyz
\* and wxyz and whose intrinsic, when there, has its 5 components is answered
\* success, whichever of the two fields it carries.
C19_CameraAnsweredSuccess ==
    \A i \in 1..Len(trace) :
        LET e == trace[i]
        IN (/\ e.msg.cmd = "camera"
            /\ Has(e.msg, "pose") => IsVector(e.msg.pose, 7)
            /\ Has(e.msg, "intrinsic") => IsVector(e.msg.intrinsic, 5))
              => /\ e.put
                 /\ e.res = [result |-> "success"]

---------------------------------------------------------------------------
(* C20 *)

\* C20: an add_keyframe that was answered added names the camera and the
\* attribute pose and carries value and frame, the fields the keyframes are
\* inserted from: a command that inserts no keyframe is not answered added.
C20_AddedOnlyWithKeyframe ==
    \A i \in 1..Len(trace) :
        LET e == trace[i]
        IN (/\ e.msg.cmd = "add_keyframe"
            /\ e.put /\ e.res.result = "added")
              => /\ {"uuid", "attribute", "value", "frame"} \subseteq DOMAIN e.msg
                 /\ Lower(e.msg.uuid) = "camera"
                 /\ Lower(e.msg.attribute) = "pose"

---------------------------------------------------------------------------
(* C21 *)

\* the frame of a sample: of the pair, or of the middle pair of the three
Frame(v) == v.p[1]

\* the frames of the samples increase strictly along the sequence
Increasing(values) ==
    \A i, j \in 1..Len(values) : i < j => Frame(values[i]) < Frame(values[j])

\* the keyframe the command table gives for a sample under a mode
KeyframeOf(v, mode) ==
    IF mode = "bezier"
    THEN [frame |-> v.p[1], value |-> v.p[2], interpolation |-> "BEZIER",
          handle_left |-> v.l, handle_left_type |-> "ALIGNED",
          handle_right |-> v.r, handle_right_type |-> "ALIGNED"]
    ELSE [frame |-> v.p[1], value |-> v.p[2],
          interpolation |-> IF mode = "constant" THEN "CONSTANT" ELSE "LINEAR",
          handle_left |-> <<>>, handle_left_type |-> "default",
          handle_right |-> <<>>, handle_right_type |-> "default"]

\* the step answers the add_animation_fcurve in hand with added
AnswersAdded ==
    /\ pc = "handle"
    /\ new_command.cmd = "add_animation_fcurve"
    /\ Complete(new_command) /\ Shaped(new_command)
    /\ pc' = "poll"
    /\ res_queue' = Append(res_queue, [result |-> "added"])

\* the step has added one curve whose keyframes are those of the samples of
\* the command in hand, one for one and in the order of the sequence
OneKeyframePerSample ==
    /\ Len(scene'.fcurves) = Len(scene.fcurves) + 1
    /\ LET points == scene'.fcurves[Len(scene'.fcurves)].points
           values == new_command.values
       IN /\ Len(points) = Len(values)
          /\ \A i \in 1..Len(values) :
                points[i] = KeyframeOf(values[i], new_command.mode)

\* C21 (as stated): a step that answers an add_animation_fcurve with added
\* leaves a curve with exactly one keyframe for every sample, in the order of
\* the sequence, each with the mode's interpolation, frame, value and, for
\* bezier, the two handles with the handle types ALIGNED.
C21_OneKeyframePerSample ==
    [][AnswersAdded => OneKeyframePerSample]_vars

\* C21 (amended): the same for the commands whose samples have strictly
\* increasing frames.
C21_OneKeyframePerIncreasingSample ==
    [][(AnswersAdded /\ Increasing(new_command.values))
          => OneKeyframePerSample]_vars

\* a bezier command of two samples has been answered added and its curve
\* holds two keyframes with both handle types ALIGNED
C21_Witness ==
    /\ trace # <<>>
    /\ LET e == trace[Len(trace)]
       IN /\ e.msg.cmd = "add_animation_fcurve"
          /\ e.msg.mode = "bezier" /\ Len(e.msg.values) = 2
          /\ e.put /\ e.res = [result |-> "added"]
    /\ scene.fcurves # <<>>
    /\ LET points == scene.fcurves[Len(scene.fcurves)].points
       IN /\ Len(points) = 2
          /\ \A i \in 1..2 : /\ points[i].handle_left_type = "ALIGNED"
                             /\ points[i].handle_right_type = "ALIGNED"
                             /\ points[i].interpolation = "BEZIER"

=============================================================================
